---- MODULE Spec2Model ----
(***************************************************************************)
(* Lifetime and ownership model of llvmlite/binding/module.py:             *)
(* parse_assembly, ModuleRef and _GlobalsIterator, together with the       *)
(* native objects (modules, cursors) their handles point at.               *)
(*                                                                         *)
(* ffi.ObjectRef (close, detach, finalisation, handing a handle to a       *)
(* native call), link_modules and the native library itself are outside    *)
(* module.py; they are modelled from the design document.                  *)
(***************************************************************************)
EXTENDS Integers, Sequences, FiniteSets, TLC

\* ---- bounds of the model ------------------------------------------------
\* number of parse_assembly calls (one ModuleRef object and at most one
\* native module each)
MaxMods == 2
\* number of global_variables accesses (one _GlobalsIterator each)
MaxIters == 2
\* number of them under Spec, where every operation of the module is at hand
MaxItersSpec == 1
\* longest IR text, counted in symbol definitions
MaxLen == 1
\* longest string written to data_layout or triple under Spec
MaxStr == 0
\* longest string written to data_layout or triple under SpecAttrs
MaxAttrStr == 2

\* ---- values ---------------------------------------------------------------
\* the null native pointer
Null == 0

Handles == 1..MaxMods
Addrs == 1..MaxMods
Iters == 1..MaxIters

\* symbols an IR text can define: functions and global variables
Funcs == {"f"}
GVars == {"g1", "g2"}
Syms == Funcs \cup GVars

\* an LLVMValueRef: the symbol n of the native module at address m
NullPtr == [m |-> Null, n |-> "null"]
ValPtr(a, n) == [m |-> a, n |-> n]

\* a pointer into the memory of the deleted module a
WildPtr(a) == [m |-> a, n |-> "freed"]

SeqsUpTo(S, k) == UNION {[1..n -> S] : n \in 0..k}

\* IR texts: a text is the sequence of its top-level entities, each the
\* definition of a symbol or something that is no IR ("?")
Junk == "?"
Texts == SeqsUpTo(Syms \cup {Junk}, MaxLen)

\* strings are sequences of characters; character 0 is NUL
Chars == {0, 1}
Strs == SeqsUpTo(Chars, MaxStr)
AttrStrs == SeqsUpTo(Chars, MaxAttrStr)

RECURSIVE Filter(_, _)
Filter(s, S) ==
    IF s = <<>> THEN <<>>
    ELSE IF Head(s) \in S THEN <<Head(s)>> \o Filter(Tail(s), S)
    ELSE Filter(Tail(s), S)

Range(s) == {s[k] : k \in 1..Len(s)}
Distinct(s) == \A j, k \in 1..Len(s) : j # k => s[j] # s[k]

VARIABLES
    mods,   \* ModuleRef objects: st (unborn/live/closed), addr, ref (caller holds it)
    nat,    \* native modules by address: alive, syms, disposed (calls of the destructor)
    iters,  \* _GlobalsIterator objects: st, module (the ModuleRef kept in _module), ref, out
    curs,   \* native cursors, one per iterator object: alive, mod, pos, done, disposed
    last,   \* outcome of the last operation
    ncall   \* native calls made by the last operation: fn, arg, ok (arg was valid)

vars == <<mods, nat, iters, curs, last, ncall>>

\* the variables as one record, so that the steps of an operation compose
World == [mods |-> mods, nat |-> nat, iters |-> iters, curs |-> curs, calls |-> {}]

Call(fn, arg, ok) == [fn |-> fn, arg |-> arg, ok |-> ok]

\* ---- the native library -------------------------------------------------
\* freed memory keeps nothing of the module that lived in it
Freed(m) == [m EXCEPT !.alive = FALSE, !.syms = <<>>, !.dl = <<>>, !.tr = <<>>]

\* LLVMPY_DisposeModule: deletes the module at address a; deleting the null
\* pointer does nothing
LLVMPY_DisposeModule(W, a) ==
    IF a = Null
    THEN [W EXCEPT !.calls = @ \cup {Call("LLVMPY_DisposeModule", a, TRUE)}]
    ELSE [W EXCEPT !.nat[a] = [Freed(@) EXCEPT !.disposed = @ + 1],
                   !.calls = @ \cup {Call("LLVMPY_DisposeModule", a, W.nat[a].alive)}]

\* no cursor: before LLVMPY_ModuleGlobalIter made it and after its deletion
NoCursor == [alive |-> FALSE, mod |-> Null, pos |-> 0, done |-> FALSE,
             disposed |-> 0, snap |-> <<>>]

\* LLVMPY_DisposeGlobalIter: deletes the cursor c
LLVMPY_DisposeGlobalIter(W, c) ==
    [W EXCEPT !.curs[c] = [NoCursor EXCEPT !.disposed = W.curs[c].disposed + 1],
              !.calls = @ \cup {Call("LLVMPY_DisposeGlobalIter", c, W.curs[c].alive)}]

\* ---- ffi.ObjectRef ------------------------------------------------------
\* ModuleRef._dispose
ModuleRef_dispose(W, h) == LLVMPY_DisposeModule(W, W.mods[h].addr)

\* a _dispose that deletes the module the cursor walks along with the cursor
GlobalsIterator_dispose_module(W, i) ==
    LLVMPY_DisposeModule(LLVMPY_DisposeGlobalIter(W, i), W.curs[i].mod)

\* _GlobalsIterator._dispose
GlobalsIterator_dispose(W, i) == LLVMPY_DisposeGlobalIter(W, i)

\* ObjectRef.detach on a ModuleRef: the handle is invalidated, the native
\* object is left alone
ModuleRef_detach(W, h) ==
    IF W.mods[h].st = "live" THEN [W EXCEPT !.mods[h].st = "closed"] ELSE W

\* ObjectRef.close on a ModuleRef: disposes once, then invalidates the handle
ModuleRef_close(W, h) ==
    IF W.mods[h].st = "live"
    THEN ModuleRef_detach(ModuleRef_dispose(W, h), h)
    ELSE W

GlobalsIterator_detach(W, i) ==
    IF W.iters[i].st = "live" THEN [W EXCEPT !.iters[i].st = "closed"] ELSE W

GlobalsIterator_close(W, i) ==
    IF W.iters[i].st = "live"
    THEN GlobalsIterator_detach(GlobalsIterator_dispose(W, i), i)
    ELSE W

\* the ModuleRef objects nothing refers to any more: neither the caller nor an
\* iterator object (_module)
Unreferenced(W) ==
    {h \in Handles :
        /\ W.mods[h].st = "live"
        /\ ~W.mods[h].ref
        /\ \A i \in Iters : ~(W.iters[i].ref /\ W.iters[i].module = h)}

\* end of scope: every unreferenced ModuleRef is finalised, which closes it
RECURSIVE Finalize(_)
Finalize(W) ==
    IF Unreferenced(W) = {} THEN W
    ELSE LET h == CHOOSE x \in Unreferenced(W) : TRUE
         IN Finalize(ModuleRef_close(W, h))

\* ---- outcome of an operation --------------------------------------------
Outcome(op, h, pre, res) ==
    [op |-> op, h |-> h, pre |-> pre, res |-> res,
     val |-> NullPtr, txt |-> <<>>, str |-> <<>>,
     o |-> 0, opre |-> "none", preserve |-> FALSE,
     ev |-> <<>>, buf |-> <<>>]

\* no operation is in progress: the caller has taken the outcome of the last one
Idle == Outcome("none", 0, "none", "ok")

\* an operation runs from the caller's call to its outcome
Commit(W, out) ==
    /\ last = Idle
    /\ mods' = W.mods
    /\ nat' = W.nat
    /\ iters' = W.iters
    /\ curs' = W.curs
    /\ ncall' = W.calls
    /\ last' = out

Init ==
    /\ mods = [h \in Handles |-> [st |-> "unborn", addr |-> Null, ref |-> FALSE]]
    /\ nat = [a \in Addrs |-> [alive |-> FALSE, syms |-> <<>>, disposed |-> 0,
                               dl |-> <<>>, tr |-> <<>>]]
    /\ iters = [i \in Iters |-> [st |-> "unborn", module |-> 0, ref |-> FALSE,
                                 out |-> <<>>, stopped |-> FALSE]]
    /\ curs = [i \in Iters |-> NoCursor]
    /\ last = Idle
    /\ ncall = {}

\* ---- buffers ------------------------------------------------------------
\* What an operation does with its buffers is kept in the field ev of its
\* outcome, in program order: "in.alloc" and "in.free" for the encoded input
\* buffer, the name of every native function called, "fill" when the native
\* call has put a string into the output slot, "copy" when the wrapper turns
\* the slot into a Python string and "free" when the string of the slot is
\* handed to the native deallocation routine.

\* a native call that reports through an output slot
NativeOut(fn, fills) == IF fills THEN <<fn, "fill">> ELSE <<fn>>

\* with ffi.OutputString(owned) as s: body. However the block is left, the
\* string the slot holds is released when the slot owns it.
OutputString(owned, body) ==
    IF owned /\ "fill" \in Range(body) THEN Append(body, "free") ELSE body

\* ---- parse_assembly -----------------------------------------------------
\* the native parser rejects a text that holds something that is no IR or that
\* defines a symbol twice
Accepts(text) == Distinct(text) /\ Junk \notin Range(text)

\* the handle of the next ModuleRef object, 0 when MaxMods exist
NextHandle ==
    IF \E h \in Handles : mods[h].st = "unborn"
    THEN CHOOSE h \in Handles :
            mods[h].st = "unborn" /\ \A g \in Handles : g < h => mods[g].st # "unborn"
    ELSE 0

\* LLVMPY_ParseAssembly: an accepted text gives a module at the fresh address a
\* and leaves the error slot empty; a rejected text fills the error slot and
\* returns r, which is null or an empty module at a
LLVMPY_ParseAssembly(W, a, text, r) ==
    IF Accepts(text)
    THEN [W EXCEPT !.nat[a].alive = TRUE, !.nat[a].syms = text,
                   !.calls = @ \cup {Call("LLVMPY_ParseAssembly", a, TRUE)}]
    ELSE IF r = Null
    THEN [W EXCEPT !.calls = @ \cup {Call("LLVMPY_ParseAssembly", Null, TRUE)}]
    ELSE [W EXCEPT !.nat[a].alive = TRUE, !.nat[a].syms = <<>>,
                   !.calls = @ \cup {Call("LLVMPY_ParseAssembly", a, TRUE)}]

\* mod = ModuleRef(...): a live handle on the returned pointer
ModuleRef_init(W, h, ptr) ==
    [W EXCEPT !.mods[h] = [st |-> "live", addr |-> ptr, ref |-> TRUE]]

\* a parse_assembly that never looks at the error slot
parse_errmsg_ignored(text) == FALSE

\* if errmsg: the error slot is non-empty exactly when the text was rejected
parse_errmsg(text) == ~Accepts(text)

\* the error path of parse_assembly: mod.close(), then the raise drops mod
parse_failure(W, h) ==
    Finalize([ModuleRef_close(W, h) EXCEPT !.mods[h].ref = FALSE])

\* the buffers of parse_assembly: the encoded text is held by the locals
\* llvmir and strbuf until the function is left; the error slot is an owned
\* OutputString, read by format() on the error path after mod.close()
parse_events(filled) ==
    <<"LLVMPY_GetGlobalContext", "in.alloc">>
    \o OutputString(TRUE, NativeOut("LLVMPY_ParseAssembly", filled)
                          \o (IF filled THEN <<"LLVMPY_DisposeModule", "copy">>
                              ELSE <<>>))
    \o <<"in.free">>

parse_assembly(text) ==
    /\ NextHandle # 0
    /\ LET h == NextHandle IN
       \E r \in {Null, h} :
          /\ Accepts(text) => r = h
          /\ LET W1 == ModuleRef_init(LLVMPY_ParseAssembly(World, h, text, r), h, r)
                 pre == IF Accepts(text) THEN "accepted" ELSE "rejected"
             IN IF parse_errmsg(text)
                THEN Commit(parse_failure(W1, h),
                            [Outcome("parse_assembly", h, pre, "RuntimeError")
                                EXCEPT !.ev = parse_events(TRUE)])
                ELSE Commit(W1, [Outcome("parse_assembly", h, pre, "ok")
                                    EXCEPT !.ev = parse_events(FALSE)])

\* ---- explicit release and end of scope -----------------------------------
\* mod.close()
close(h) ==
    /\ mods[h].ref
    /\ Commit(ModuleRef_close(World, h), Outcome("close", h, mods[h].st, "ok"))

\* mod.detach()
detach(h) ==
    /\ mods[h].ref
    /\ Commit(ModuleRef_detach(World, h), Outcome("detach", h, mods[h].st, "ok"))

\* the caller drops its reference to the ModuleRef
del_module(h) ==
    /\ mods[h].ref
    /\ Commit(Finalize([World EXCEPT !.mods[h].ref = FALSE]),
              Outcome("del_module", h, mods[h].st, "ok"))

\* ---- handing a handle to a native function --------------------------------
\* ObjectRef as a native argument: only a live handle converts to its address
Usable(W, h) == W.mods[h].st = "live"

UseAfterFree(op, h) == Commit(World, Outcome(op, h, mods[h].st, "UseAfterFree"))

\* the same for an operation that had set up buffers before the handle was
\* converted
UseAfterFreeWith(op, h, ev) ==
    Commit(World, [Outcome(op, h, mods[h].st, "UseAfterFree") EXCEPT !.ev = ev])

\* a native function reading the module at address a
Reads(W, fn, a) == [W EXCEPT !.calls = @ \cup {Call(fn, a, W.nat[a].alive)}]

\* ---- ModuleRef ----------------------------------------------------------
\* a __str__ that hands the stored address to the native call, live or not
ModuleRef_str_rawptr(h) ==
    /\ mods[h].ref
    /\ LET a == mods[h].addr IN
       Commit(Reads(World, "LLVMPY_PrintModuleToString", a),
              [Outcome("str", h, mods[h].st, "ok") EXCEPT !.txt = nat[a].syms])

\* a __str__ that reads the slot after the with block has released it
str_events_late(usable) ==
    OutputString(TRUE, IF usable THEN NativeOut("LLVMPY_PrintModuleToString", TRUE)
                       ELSE <<>>)
    \o (IF usable THEN <<"copy">> ELSE <<>>)

\* the buffer of __str__: an owned slot, read by str(outstr) inside the block
str_events(usable) ==
    OutputString(TRUE, IF usable
                       THEN NativeOut("LLVMPY_PrintModuleToString", TRUE) \o <<"copy">>
                       ELSE <<>>)

\* ModuleRef.__str__
ModuleRef_str(h) ==
    /\ mods[h].ref
    /\ IF ~Usable(World, h) THEN UseAfterFreeWith("str", h, str_events(FALSE))
       ELSE LET a == mods[h].addr IN
            Commit(Reads(World, "LLVMPY_PrintModuleToString", a),
                   [Outcome("str", h, "live", "ok")
                       EXCEPT !.txt = nat[a].syms, !.ev = str_events(TRUE)])

\* LLVMPY_GetNamedFunction / LLVMPY_GetNamedGlobalVariable: the symbol of
\* that kind and name, null when the module has none
Lookup(W, a, name, kind) ==
    IF name \in Range(W.nat[a].syms) /\ name \in kind THEN ValPtr(a, name) ELSE NullPtr

\* a lookup that wraps the native result without testing it
lookup_result_nocheck(op, h, p) ==
    [Outcome(op, h, "live", "value") EXCEPT !.val = p]

\* if not p: raise NameError(name); return ValueRef(p, module=self)
lookup_result(op, h, p) ==
    IF p = NullPtr
    THEN Outcome(op, h, "live", "NameError")
    ELSE [Outcome(op, h, "live", "value") EXCEPT !.val = p]

\* ModuleRef.get_function
get_function(h, name) ==
    /\ mods[h].ref
    /\ IF ~Usable(World, h) THEN UseAfterFree("get_function", h)
       ELSE LET a == mods[h].addr IN
            Commit(Reads(World, "LLVMPY_GetNamedFunction", a),
                   [lookup_result("get_function", h, Lookup(World, a, name, Funcs))
                        EXCEPT !.txt = <<name>>])

\* ModuleRef.get_global_variable
get_global_variable(h, name) ==
    /\ mods[h].ref
    /\ IF ~Usable(World, h) THEN UseAfterFree("get_global_variable", h)
       ELSE LET a == mods[h].addr IN
            Commit(Reads(World, "LLVMPY_GetNamedGlobalVariable", a),
                   [lookup_result("get_global_variable", h, Lookup(World, a, name, GVars))
                        EXCEPT !.txt = <<name>>])

\* what the verifier can write about a module: nothing, or its diagnostic
VerifyDiags == {<<>>, <<"broken">>}

\* LLVMPY_VerifyModule: the verdict on a module is not decided by the symbols
\* it defines, so diag is any of the above. A broken module has its diagnostic
\* written to the slot and true returned; a sound one leaves the slot empty
\* and returns false.
LLVMPY_VerifyModule(W, a, diag) ==
    [W |-> Reads(W, "LLVMPY_VerifyModule", a), ret |-> diag # <<>>, slot |-> diag]

\* a verify that drops the verdict of the verifier
verify_result_swallow(h, r) ==
    [Outcome("verify", h, "live", "ok")
        EXCEPT !.buf = r.slot,
               !.ev = OutputString(TRUE, NativeOut("LLVMPY_VerifyModule", r.slot # <<>>))]

\* with ffi.OutputString() as outmsg:
\*     if LLVMPY_VerifyModule(self, outmsg): raise RuntimeError(str(outmsg))
verify_result(h, r) ==
    IF r.ret
    THEN [Outcome("verify", h, "live", "RuntimeError")
             EXCEPT !.txt = r.slot, !.buf = r.slot,
                    !.ev = OutputString(TRUE,
                               NativeOut("LLVMPY_VerifyModule", r.slot # <<>>)
                               \o <<"copy">>)]
    ELSE [Outcome("verify", h, "live", "ok")
             EXCEPT !.buf = r.slot,
                    !.ev = OutputString(TRUE,
                               NativeOut("LLVMPY_VerifyModule", r.slot # <<>>))]

\* ModuleRef.verify
verify(h) ==
    /\ mods[h].ref
    /\ IF ~Usable(World, h) THEN UseAfterFree("verify", h)
       ELSE \E diag \in VerifyDiags :
            LET r == LLVMPY_VerifyModule(World, mods[h].addr, diag)
            IN Commit(r.W, verify_result(h, r))

\* a Python string as the native side reads it: up to the first NUL
RECURSIVE CStr(_)
CStr(s) ==
    IF s = <<>> \/ Head(s) = 0 THEN <<>> ELSE <<Head(s)>> \o CStr(Tail(s))

\* a data_layout getter whose slot owns the string it is given
data_layout_events_owned(usable) ==
    OutputString(TRUE, IF usable
                       THEN NativeOut("LLVMPY_GetDataLayout", TRUE) \o <<"copy">>
                       ELSE <<>>)

\* the buffer of the data_layout getter: OutputString(owned=False), the string
\* belongs to the module; str(outmsg) reads it inside the block
data_layout_events(usable) ==
    OutputString(FALSE, IF usable
                        THEN NativeOut("LLVMPY_GetDataLayout", TRUE) \o <<"copy">>
                        ELSE <<>>)

\* ModuleRef.data_layout (getter)
data_layout(h) ==
    /\ mods[h].ref
    /\ IF ~Usable(World, h)
       THEN UseAfterFreeWith("data_layout", h, data_layout_events(FALSE))
       ELSE LET a == mods[h].addr IN
            Commit(Reads(World, "LLVMPY_GetDataLayout", a),
                   [Outcome("data_layout", h, "live", "ok")
                       EXCEPT !.str = nat[a].dl, !.ev = data_layout_events(TRUE)])

\* a setter that lets go of the encoded buffer and hands its address on
setter_events_early(fn, usable) ==
    <<"in.alloc", "in.free">> \o (IF usable THEN <<fn>> ELSE <<>>)

\* the buffer of a setter: create_string_buffer(...) is an argument of the
\* native call, so it lives until the call has returned; on a closed handle
\* the call is not made
setter_events(fn, usable) ==
    <<"in.alloc">> \o (IF usable THEN <<fn>> ELSE <<>>) \o <<"in.free">>

\* ModuleRef.data_layout (setter)
set_data_layout(h, strrep) ==
    /\ mods[h].ref
    /\ IF ~Usable(World, h)
       THEN UseAfterFreeWith("set_data_layout", h,
                             setter_events("LLVMPY_SetDataLayout", FALSE))
       ELSE LET a == mods[h].addr IN
            Commit([Reads(World, "LLVMPY_SetDataLayout", a)
                        EXCEPT !.nat[a].dl = CStr(strrep)],
                   [Outcome("set_data_layout", h, "live", "ok")
                       EXCEPT !.str = strrep,
                              !.ev = setter_events("LLVMPY_SetDataLayout", TRUE)])

\* the buffer of the triple getter: OutputString(owned=False) as well
triple_events(usable) ==
    OutputString(FALSE, IF usable
                        THEN NativeOut("LLVMPY_GetTarget", TRUE) \o <<"copy">>
                        ELSE <<>>)

\* ModuleRef.triple (getter)
triple(h) ==
    /\ mods[h].ref
    /\ IF ~Usable(World, h) THEN UseAfterFreeWith("triple", h, triple_events(FALSE))
       ELSE LET a == mods[h].addr IN
            Commit(Reads(World, "LLVMPY_GetTarget", a),
                   [Outcome("triple", h, "live", "ok")
                       EXCEPT !.str = nat[a].tr, !.ev = triple_events(TRUE)])

\* a triple setter that calls the native setter of the data layout
set_triple_as_layout(h, strrep) ==
    /\ mods[h].ref
    /\ IF ~Usable(World, h)
       THEN UseAfterFreeWith("set_triple", h, setter_events("LLVMPY_SetTarget", FALSE))
       ELSE LET a == mods[h].addr IN
            Commit([Reads(World, "LLVMPY_SetDataLayout", a)
                        EXCEPT !.nat[a].dl = CStr(strrep)],
                   [Outcome("set_triple", h, "live", "ok")
                       EXCEPT !.str = strrep,
                              !.ev = setter_events("LLVMPY_SetDataLayout", TRUE)])

\* ModuleRef.triple (setter)
set_triple(h, strrep) ==
    /\ mods[h].ref
    /\ IF ~Usable(World, h)
       THEN UseAfterFreeWith("set_triple", h, setter_events("LLVMPY_SetTarget", FALSE))
       ELSE LET a == mods[h].addr IN
            Commit([Reads(World, "LLVMPY_SetTarget", a)
                        EXCEPT !.nat[a].tr = CStr(strrep)],
                   [Outcome("set_triple", h, "live", "ok")
                       EXCEPT !.str = strrep,
                              !.ev = setter_events("LLVMPY_SetTarget", TRUE)])

\* link_modules(dst, src, preserve): both handles are handed to the native
\* linker, which fails when the two modules define a common symbol and otherwise
\* moves the symbols of src behind those of dst; unless preserve, the linker
\* consumes the module of src. Linking a module into itself is left to the
\* native library: selfok is what it answers.
link_modules(W, h, o, preserve, selfok) ==
    LET a == W.mods[h].addr
        b == W.mods[o].addr
        W1 == [W EXCEPT !.calls = @ \cup
                  {Call("LLVMPY_LinkModules", a, W.nat[a].alive),
                   Call("LLVMPY_LinkModules", b, W.nat[b].alive)}]
    IN IF a = b THEN [W |-> W1, ok |-> selfok]
       ELSE IF Range(W.nat[a].syms) \cap Range(W.nat[b].syms) # {}
       THEN [W |-> W1, ok |-> FALSE]
       ELSE [W |-> [W1 EXCEPT !.nat[a].syms = @ \o W.nat[b].syms,
                              !.nat[b] = IF preserve THEN @ ELSE Freed(@)],
             ok |-> TRUE]

\* a link_in that never detaches other
link_finish_keep(W, o, preserve, ok) == W

\* a link_in that detaches other whether or not the merge succeeded
link_finish_always(W, o, preserve, ok) ==
    IF ~preserve THEN ModuleRef_detach(W, o) ELSE W

\* a link_in that closes other where it should detach it
link_finish_close(W, o, preserve, ok) ==
    IF ok /\ ~preserve THEN ModuleRef_close(W, o) ELSE W

\* a link_in that detaches other whatever preserve says
link_finish_nopreserve(W, o, preserve, ok) ==
    IF ok THEN ModuleRef_detach(W, o) ELSE W

\* link_in after link_modules: a failed merge raises and skips the rest;
\* if not preserve: other.detach()
link_finish(W, o, preserve, ok) ==
    IF ok /\ ~preserve THEN ModuleRef_detach(W, o) ELSE W

\* a link_in that detaches self where it should detach other
link_in_detach_self(h, o, preserve) ==
    /\ mods[h].ref
    /\ mods[o].ref
    /\ LET out == [Outcome("link_in", h, mods[h].st, "ok")
                      EXCEPT !.o = o, !.opre = mods[o].st, !.preserve = preserve]
       IN IF ~Usable(World, h) \/ ~Usable(World, o)
          THEN Commit(World, [out EXCEPT !.res = "UseAfterFree"])
          ELSE \E selfok \in BOOLEAN :
               LET r == link_modules(World, h, o, preserve, selfok)
               IN Commit(link_finish(r.W, h, preserve, r.ok),
                         [out EXCEPT !.res = IF r.ok THEN "ok" ELSE "RuntimeError"])

\* ModuleRef.link_in
link_in(h, o, preserve) ==
    /\ mods[h].ref
    /\ mods[o].ref
    /\ LET out == [Outcome("link_in", h, mods[h].st, "ok")
                      EXCEPT !.o = o, !.opre = mods[o].st, !.preserve = preserve]
       IN IF ~Usable(World, h) \/ ~Usable(World, o)
          THEN Commit(World, [out EXCEPT !.res = "UseAfterFree"])
          ELSE \E selfok \in BOOLEAN :
               LET r == link_modules(World, h, o, preserve, selfok)
               IN Commit(link_finish(r.W, o, preserve, r.ok),
                         [out EXCEPT !.res = IF r.ok THEN "ok" ELSE "RuntimeError"])

\* ---- _GlobalsIterator ---------------------------------------------------
NextIter ==
    IF \E i \in Iters : iters[i].st = "unborn"
    THEN CHOOSE i \in Iters :
            iters[i].st = "unborn" /\ \A j \in Iters : j < i => iters[j].st # "unborn"
    ELSE 0

\* the global variables of a module, in definition order
Globals(W, a) == Filter(W.nat[a].syms, GVars)

\* LLVMPY_ModuleGlobalIter: a fresh cursor c at the first global of module a
LLVMPY_ModuleGlobalIter(W, c, a) ==
    [W EXCEPT !.curs[c] = [alive |-> TRUE, mod |-> a, pos |-> 0,
                           done |-> Globals(W, a) = <<>>, disposed |-> 0,
                           snap |-> W.nat[a].syms],
              !.calls = @ \cup {Call("LLVMPY_ModuleGlobalIter", a, W.nat[a].alive)}]

\* _GlobalsIterator.__init__: the handle, and self._module = module
GlobalsIterator_init(W, i, h) ==
    [W EXCEPT !.iters[i] = [st |-> "live", module |-> h, ref |-> TRUE,
                            out |-> <<>>, stopped |-> FALSE]]

\* a global_variables that keeps one native cursor per module and rewinds it
\* on every access
global_variables_shared(h) ==
    /\ mods[h].ref
    /\ IF ~Usable(World, h) THEN UseAfterFree("global_variables", h)
       ELSE /\ NextIter # 0
            /\ LET i == NextIter
                   a == mods[h].addr
                   W1 == GlobalsIterator_init(LLVMPY_ModuleGlobalIter(World, i, a), i, h)
               IN Commit([W1 EXCEPT !.curs = [c \in Iters |->
                                        IF W1.curs[c].alive /\ W1.curs[c].mod = a
                                        THEN W1.curs[i] ELSE W1.curs[c]]],
                         [Outcome("global_variables", h, "live", "ok") EXCEPT !.o = i])

\* ModuleRef.global_variables
global_variables(h) ==
    /\ mods[h].ref
    /\ IF ~Usable(World, h) THEN UseAfterFree("global_variables", h)
       ELSE /\ NextIter # 0
            /\ LET i == NextIter IN
               Commit(GlobalsIterator_init(
                          LLVMPY_ModuleGlobalIter(World, i, mods[h].addr), i, h),
                      [Outcome("global_variables", h, "live", "ok") EXCEPT !.o = i])

\* the cursor c can be advanced safely: it and the module it walks exist
CursorValid(W, c) == W.curs[c].alive /\ W.nat[W.curs[c].mod].alive

\* the longest list of globals a module can hold
MaxPos == MaxLen * MaxMods

\* LLVMPY_GlobalIterNext: the global under the cursor, which then moves on; null
\* at the end of the list, and null again on every later call. On a cursor
\* whose module is gone the call reads freed memory: ub is what it finds there,
\* null or a pointer into the freed module.
LLVMPY_GlobalIterNext(W, c, ub) ==
    LET cur == W.curs[c]
        gv == Globals(W, cur.mod)
        W1 == [W EXCEPT !.calls = @ \cup
                  {Call("LLVMPY_GlobalIterNext", c, CursorValid(W, c))}]
    IN IF ~CursorValid(W, c)
       THEN IF cur.done \/ ub = NullPtr \/ cur.pos >= MaxPos
            THEN [W |-> [W1 EXCEPT !.curs[c].done = TRUE], vp |-> NullPtr]
            ELSE [W |-> [W1 EXCEPT !.curs[c].pos = @ + 1], vp |-> ub]
       ELSE IF cur.done \/ cur.pos >= Len(gv)
       THEN [W |-> [W1 EXCEPT !.curs[c].done = TRUE], vp |-> NullPtr]
       ELSE [W |-> [W1 EXCEPT !.curs[c].pos = @ + 1,
                              !.curs[c].done = (cur.pos + 1 = Len(gv))],
             vp |-> ValPtr(cur.mod, gv[cur.pos + 1])]

\* a __next__ that wraps whatever the cursor returns, null included
next_result_nocheck(W, i, vp) ==
    [W |-> [W EXCEPT !.iters[i].out = Append(@, vp)],
     out |-> [Outcome("next", i, "live", "value") EXCEPT !.val = vp]]

\* a __next__ that asks the module for a new cursor when the old one has
\* reached the end
next_result_rewind(W, i, vp) ==
    IF vp # NullPtr
    THEN [W |-> [W EXCEPT !.iters[i].out = Append(@, vp)],
          out |-> [Outcome("next", i, "live", "value") EXCEPT !.val = vp]]
    ELSE [W |-> [W EXCEPT !.iters[i].stopped = TRUE,
                          !.curs[i].pos = 0,
                          !.curs[i].done = (Globals(W, W.curs[i].mod) = <<>>)],
          out |-> Outcome("next", i, "live", "StopIteration")]

\* if vp: return ValueRef(vp, self._module); else: raise StopIteration
next_result(W, i, vp) ==
    IF vp # NullPtr
    THEN [W |-> [W EXCEPT !.iters[i].out = Append(@, vp)],
          out |-> [Outcome("next", i, "live", "value") EXCEPT !.val = vp]]
    ELSE [W |-> [W EXCEPT !.iters[i].stopped = TRUE],
          out |-> Outcome("next", i, "live", "StopIteration")]

\* _GlobalsIterator.__next__
next(i) ==
    /\ iters[i].ref
    /\ IF iters[i].st # "live"
       THEN Commit(World, Outcome("next", i, iters[i].st, "UseAfterFree"))
       ELSE \E ub \in {NullPtr, WildPtr(curs[i].mod)} :
            LET r == LLVMPY_GlobalIterNext(World, i, ub)
                res == next_result(r.W, i, r.vp)
            IN Commit(res.W, [res.out EXCEPT !.opre = IF iters[i].stopped
                                                      THEN "stopped" ELSE "fresh"])

\* it.close()
iter_close(i) ==
    /\ iters[i].ref
    /\ Commit(GlobalsIterator_close(World, i),
              Outcome("iter_close", i, iters[i].st, "ok"))

\* it.detach()
iter_detach(i) ==
    /\ iters[i].ref
    /\ Commit(GlobalsIterator_detach(World, i),
              Outcome("iter_detach", i, iters[i].st, "ok"))

\* the caller drops its reference to the iterator: it is finalised, and so is
\* its module when the iterator held the last reference to it
del_iter(i) ==
    /\ iters[i].ref
    /\ Commit(Finalize([GlobalsIterator_close(World, i) EXCEPT
                            !.iters[i] = [@ EXCEPT !.ref = FALSE, !.out = <<>>,
                                                   !.stopped = FALSE]]),
              Outcome("del_iter", i, iters[i].st, "ok"))

\* the caller takes the outcome (the value or the exception) and goes on
return ==
    /\ last # Idle
    /\ last' = Idle
    /\ ncall' = {}
    /\ UNCHANGED <<mods, nat, iters, curs>>

\* the iterator objects made so far
Made == {i \in Iters : iters[i].st # "unborn"}

Next ==
    \/ return
    \/ \E text \in Texts : parse_assembly(text)
    \/ \E h \in Handles : close(h)
    \/ \E h \in Handles : detach(h)
    \/ \E h \in Handles : del_module(h)
    \/ \E h \in Handles : ModuleRef_str(h)
    \/ \E h \in Handles, name \in Syms : get_function(h, name)
    \/ \E h \in Handles, name \in Syms : get_global_variable(h, name)
    \/ \E h \in Handles : verify(h)
    \/ \E h \in Handles : data_layout(h)
    \/ \E h \in Handles, strrep \in Strs : set_data_layout(h, strrep)
    \/ \E h \in Handles : triple(h)
    \/ \E h \in Handles, strrep \in Strs : set_triple(h, strrep)
    \/ \E h, o \in Handles, preserve \in BOOLEAN : link_in(h, o, preserve)
    \/ \E h \in Handles : (Usable(World, h) => Cardinality(Made) < MaxItersSpec)
                            /\ global_variables(h)
    \/ \E i \in Iters : next(i)
    \/ \E i \in Iters : iter_close(i)
    \/ \E i \in Iters : iter_detach(i)
    \/ \E i \in Iters : del_iter(i)

Spec == Init /\ [][Next]_vars

\* the iterators of a module: modules are parsed and linked, and MaxIters
\* iterators are made, advanced, closed and dropped
NextCursors ==
    \/ return
    \/ \E text \in Texts : parse_assembly(text)
    \/ \E h, o \in Handles, preserve \in BOOLEAN : link_in(h, o, preserve)
    \/ \E h \in Handles : global_variables(h)
    \/ \E i \in Iters : next(i)
    \/ \E i \in Iters : iter_close(i)
    \/ \E i \in Iters : del_iter(i)

SpecCursors == Init /\ [][NextCursors]_vars

\* the attributes of a module: modules are parsed and closed, and data_layout
\* and triple are read and written with every string of AttrStrs
NextAttrs ==
    \/ return
    \/ \E text \in Texts : parse_assembly(text)
    \/ \E h \in Handles : close(h)
    \/ \E h \in Handles : data_layout(h)
    \/ \E h \in Handles, strrep \in AttrStrs : set_data_layout(h, strrep)
    \/ \E h \in Handles : triple(h)
    \/ \E h \in Handles, strrep \in AttrStrs : set_triple(h, strrep)

SpecAttrs == Init /\ [][NextAttrs]_vars

\* ---- properties -----------------------------------------------------------
\* the operations of the ModuleRef surface
Surface == {"verify", "get_function", "get_global_variable", "global_variables",
            "str", "data_layout", "set_data_layout", "triple", "set_triple",
            "link_in"}

\* the native functions that take a module
ModuleFns == {"LLVMPY_PrintModuleToString", "LLVMPY_GetNamedFunction",
              "LLVMPY_GetNamedGlobalVariable", "LLVMPY_VerifyModule",
              "LLVMPY_GetDataLayout", "LLVMPY_SetDataLayout", "LLVMPY_GetTarget",
              "LLVMPY_SetTarget", "LLVMPY_LinkModules", "LLVMPY_ModuleGlobalIter",
              "LLVMPY_DisposeModule"}

\* the types of the state
TypeOK ==
    /\ \A h \in Handles :
          /\ mods[h].st \in {"unborn", "live", "closed"}
          /\ mods[h].addr \in {Null, h}
          /\ mods[h].ref \in BOOLEAN
    /\ \A a \in Addrs : nat[a].alive \in BOOLEAN /\ nat[a].disposed \in Nat
    /\ \A i \in Iters :
          /\ iters[i].st \in {"unborn", "live", "closed"}
          /\ iters[i].module \in Handles \cup {0}
          /\ curs[i].pos \in 0..MaxPos

\* C1: the native deallocation routine is invoked at most once per module
\* address and per cursor, whatever sequence of close, detach, link_in and
\* end-of-scope releases is applied; a close of a closed handle calls nothing.
C1_DisposedAtMostOnce ==
    /\ \A a \in Addrs : nat[a].disposed <= 1
    /\ \A i \in Iters : curs[i].disposed <= 1
    /\ (last.op \in {"close", "iter_close"} /\ last.pre = "closed") => ncall = {}

\* a second close() of a module whose first close() disposed it
C1_Witness ==
    /\ last.op = "close"
    /\ last.pre = "closed"
    /\ nat[mods[last.h].addr].disposed = 1

\* C2: on a closed ModuleRef every operation of the surface fails with
\* UseAfterFree without calling the native library, and no native function
\* that takes a module is ever called on an address whose module is gone.
C2_UseAfterFree ==
    /\ (last.op \in Surface /\ (last.pre = "closed" \/ last.opre = "closed"))
          => (last.res = "UseAfterFree" /\ ncall = {})
    /\ \A c \in ncall : c.fn \in ModuleFns => c.ok

\* a setter called on a module that close() disposed
C2_Witness ==
    /\ last.op = "set_triple"
    /\ last.pre = "closed"
    /\ last.res = "UseAfterFree"
    /\ nat[mods[last.h].addr].disposed = 1

\* C3: no module is disposed while a live iterator borrowed from it exists.
C3_NoDisposeWhileBorrowed ==
    \A i \in Iters :
        (iters[i].st = "live" /\ curs[i].alive) => nat[curs[i].mod].disposed = 0

\* C4: LLVMPY_GlobalIterNext is never invoked on a cursor whose module is
\* gone (disposed, or consumed by link_in): next() fails before it.
C4_NextAfterModuleGone ==
    \A c \in ncall : c.fn = "LLVMPY_GlobalIterNext" => c.ok

\* C5: parse_assembly on a rejected text raises the parse error and leaves
\* no usable handle: the ModuleRef built from the native return value is
\* closed, the caller does not get it, and the module the parser may have
\* allocated is disposed; a text is accepted whenever a handle is returned.
C5_ParseFailure ==
    last.op = "parse_assembly" =>
        /\ last.pre = "rejected" =>
              /\ last.res = "RuntimeError"
              /\ mods[last.h].st = "closed"
              /\ ~mods[last.h].ref
              /\ mods[last.h].addr # Null =>
                    /\ ~nat[mods[last.h].addr].alive
                    /\ nat[mods[last.h].addr].disposed = 1
        /\ last.res = "ok" => (last.pre = "accepted" /\ mods[last.h].st = "live")

\* a rejected text for which the native parser had allocated a module
C5_Witness ==
    /\ last.op = "parse_assembly"
    /\ last.pre = "rejected"
    /\ mods[last.h].addr # Null
    /\ nat[mods[last.h].addr].disposed = 1

\* the module of handle h was consumed by the linker: gone, but never disposed
Consumed(h) ==
    /\ mods[h].st # "unborn"
    /\ mods[h].addr # Null
    /\ ~nat[mods[h].addr].alive
    /\ nat[mods[h].addr].disposed = 0

\* C6: a successful link_in(other, preserve=False) closes other, and every
\* later operation on a handle whose module the linker consumed fails with
\* UseAfterFree.
C6_LinkConsumesOther ==
    /\ (last.op = "link_in" /\ last.res = "ok" /\ ~last.preserve)
          => mods[last.o].st = "closed"
    /\ (last.op \in Surface /\ Consumed(last.h))
          => (last.res = "UseAfterFree" /\ ncall = {})
    /\ (last.op = "link_in" /\ last.opre = "closed" /\ Consumed(last.o))
          => (last.res = "UseAfterFree" /\ ncall = {})

\* an operation on a module that an earlier link_in consumed
C6_Witness ==
    /\ last.op = "verify"
    /\ Consumed(last.h)
    /\ last.res = "UseAfterFree"

\* C7: when the native merge fails, link_in leaves other as it was: a live
\* handle the caller holds, on a module that still exists.
C7_LinkFailureKeepsOther ==
    (last.op = "link_in" /\ last.res = "RuntimeError") =>
        /\ mods[last.o].st = "live"
        /\ mods[last.o].ref
        /\ nat[mods[last.o].addr].alive

\* a failed link_in(other, preserve=False)
C7_Witness ==
    /\ last.op = "link_in"
    /\ last.res = "RuntimeError"
    /\ ~last.preserve
    /\ last.o # last.h

\* C8: link_in(other, preserve=True) changes neither the handle of other nor
\* its native module, and other stays a live handle on an existing module that
\* no one has disposed; the close() of a live handle is what disposes its
\* module.
C8_PreserveKeepsOther ==
    /\ [][(last = Idle /\ last'.op = "link_in" /\ last'.preserve
              /\ last'.res # "UseAfterFree")
           => /\ mods'[last'.o] = mods[last'.o]
              /\ mods'[last'.o].st = "live"
              /\ nat'[mods[last'.o].addr].alive
              /\ nat'[mods[last'.o].addr].disposed = 0
              /\ last'.o # last'.h
                    => nat'[mods[last'.o].addr] = nat[mods[last'.o].addr]]_vars
    /\ []((last.op = "close" /\ last.pre = "live")
            => /\ nat[mods[last.h].addr].disposed = 1
               /\ ncall = {Call("LLVMPY_DisposeModule", mods[last.h].addr, TRUE)})

\* a successful link_in(other, preserve=True) of two different modules
C8_Witness ==
    /\ last.op = "link_in"
    /\ last.res = "ok"
    /\ last.preserve
    /\ last.o # last.h
    /\ mods[last.o].st = "live"
    /\ nat[mods[last.h].addr].syms # nat[mods[last.o].addr].syms

\* C9: a lookup of a name the module does not define as a symbol of the
\* wanted kind raises NameError with that name, and a returned ValueRef is
\* the symbol of that name, never null.
C9_LookupMiss ==
    (last.op \in {"get_function", "get_global_variable"} /\ last.pre = "live") =>
        LET a == mods[last.h].addr
            name == last.txt[1]
            kind == IF last.op = "get_function" THEN Funcs ELSE GVars
            defined == name \in Range(nat[a].syms) \cap kind
        IN /\ ~defined => (last.res = "NameError" /\ last.val = NullPtr)
           /\ last.res = "value" => (last.val = ValPtr(a, name) /\ defined)
           /\ last.res \in {"NameError", "value"}

\* get_function of a name the module defines as a global variable
C9_Witness ==
    /\ last.op = "get_function"
    /\ last.res = "NameError"
    /\ last.txt[1] \in Range(nat[mods[last.h].addr].syms)

\* the ValueRefs of the global variables of module a
GlobalRefs(a) ==
    [k \in 1..Len(Globals(World, a)) |-> ValPtr(a, Globals(World, a)[k])]

IsPrefix(s, t) == Len(s) <= Len(t) /\ \A k \in 1..Len(s) : s[k] = t[k]

\* C10: an iterator over a module of N global variables (a module that
\* exists and is as it was when the iterator was made) has yielded the first
\* of them, each once and in order, never more than N, and has yielded all N
\* when next() has signalled the end.
C10_YieldsAllGlobals ==
    \A i \in Iters :
        (iters[i].st = "live" /\ CursorValid(World, i)
            /\ nat[curs[i].mod].syms = curs[i].snap) =>
            /\ IsPrefix(iters[i].out, GlobalRefs(curs[i].mod))
            /\ Distinct(iters[i].out)
            /\ iters[i].stopped => iters[i].out = GlobalRefs(curs[i].mod)

\* an iteration over two global variables that has reached its end
C10_Witness ==
    \E i \in Iters :
        /\ iters[i].st = "live"
        /\ CursorValid(World, i)
        /\ nat[curs[i].mod].syms = curs[i].snap
        /\ iters[i].stopped
        /\ Len(iters[i].out) = 2

\* the operations on an iterator
IterOps == {"next", "iter_close", "iter_detach", "del_iter"}

\* the iterator j is left as it was by a step
IterUntouched(j) == iters'[j] = iters[j] /\ curs'[j] = curs[j]

\* C11: every access to global_variables makes a cursor of its own: an
\* operation on one iterator (advancing it, reaching its end, closing or
\* dropping it) leaves every other iterator and its cursor as they were, the
\* access that makes a new iterator leaves the earlier ones as they were, and
\* two iterators over the same module, unchanged since they were made, have
\* yielded sequences of which one is the beginning of the other, the same
\* sequence when both have reached the end.
C11_IndependentCursors ==
    /\ [][\A j \in Iters :
            /\ (last'.op \in IterOps /\ last'.h # j) => IterUntouched(j)
            /\ (last'.op = "global_variables" /\ last'.o # j) => IterUntouched(j)]_vars
    /\ [](\A i, j \in Iters :
            (/\ iters[i].st = "live" /\ iters[j].st = "live"
             /\ CursorValid(World, i) /\ CursorValid(World, j)
             /\ curs[i].mod = curs[j].mod
             /\ nat[curs[i].mod].syms = curs[i].snap
             /\ curs[j].snap = curs[i].snap) =>
                /\ IsPrefix(iters[i].out, iters[j].out)
                      \/ IsPrefix(iters[j].out, iters[i].out)
                /\ (iters[i].stopped /\ iters[j].stopped)
                      => iters[i].out = iters[j].out)

\* two iterators over a module of two global variables: the first has
\* reached its end, the second, made later, has just yielded its first global
C11_Witness ==
    /\ last.op = "next"
    /\ last.h = 2
    /\ iters[1].st = "live" /\ iters[2].st = "live"
    /\ curs[1].alive /\ curs[2].alive
    /\ curs[1].mod = curs[2].mod
    /\ iters[1].stopped
    /\ Len(iters[1].out) = 2
    /\ Len(iters[2].out) = 1
    /\ iters[2].out[1] = iters[1].out[1]

\* a string without a NUL character
NoNul(s) == 0 \notin Range(s)

\* C14 as stated: after a string was written to data_layout or triple, the
\* module holds exactly that string, whatever the string.
C14_RoundTrip ==
    /\ (last.op = "set_data_layout" /\ last.res = "ok")
          => nat[mods[last.h].addr].dl = last.str
    /\ (last.op = "set_triple" /\ last.res = "ok")
          => nat[mods[last.h].addr].tr = last.str

\* C14, amended: after a string without NUL character was written to
\* data_layout or triple of a live module, the module holds exactly that
\* string, the empty string included, and a read returns the string the
\* module holds; a write of one of the two leaves the other as it was.
C14_SetThenGet ==
    /\ []((last.op = "set_data_layout" /\ last.res = "ok" /\ NoNul(last.str))
            => nat[mods[last.h].addr].dl = last.str)
    /\ []((last.op = "set_triple" /\ last.res = "ok" /\ NoNul(last.str))
            => nat[mods[last.h].addr].tr = last.str)
    /\ []((last.op = "data_layout" /\ last.res = "ok")
            => last.str = nat[mods[last.h].addr].dl)
    /\ []((last.op = "triple" /\ last.res = "ok")
            => last.str = nat[mods[last.h].addr].tr)
    /\ [][/\ last'.op = "set_data_layout" => \A a \in Addrs : nat'[a].tr = nat[a].tr
          /\ last'.op = "set_triple" => \A a \in Addrs : nat'[a].dl = nat[a].dl]_vars

\* a data_layout read back as the two characters written, while the triple
\* of the module holds another string
C14_Witness ==
    /\ last.op = "data_layout"
    /\ last.res = "ok"
    /\ last.str = <<1, 1>>
    /\ nat[mods[last.h].addr].tr = <<1>>

\* how often the event e occurs in the event list s
Count(s, e) == Cardinality({k \in 1..Len(s) : s[k] = e})

OwnedOps == {"parse_assembly", "verify", "str"}
BorrowedOps == {"data_layout", "triple"}

\* C13: in parse_assembly, verify and __str__ a string put into the output
\* slot is released exactly once, after it was put there, whether the
\* operation returns or raises, and nothing is released when the slot stayed
\* empty; the getters of data_layout and triple release nothing.
C13_OwnedReleasedOnce ==
    /\ last.op \in OwnedOps =>
          /\ Count(last.ev, "free") = Count(last.ev, "fill")
          /\ Count(last.ev, "free") <= 1
          /\ \A j, k \in 1..Len(last.ev) :
                (last.ev[j] = "fill" /\ last.ev[k] = "free") => j < k
    /\ last.op \in BorrowedOps => Count(last.ev, "free") = 0

\* a parse_assembly that raised and released its error string
C13_Witness ==
    /\ last.op = "parse_assembly"
    /\ last.res = "RuntimeError"
    /\ Count(last.ev, "fill") = 1
    /\ Count(last.ev, "free") = 1

\* C15: once next() has signalled the end of an iterator, every later next()
\* on it signals the end again and yields no ValueRef.
C15_ExhaustedStays ==
    (last.op = "next" /\ last.pre = "live" /\ last.opre = "stopped") =>
        /\ last.res = "StopIteration"
        /\ last.val = NullPtr
        /\ iters[last.h].stopped

\* a second end of an iteration that had yielded a global variable
C15_Witness ==
    /\ last.op = "next"
    /\ last.opre = "stopped"
    /\ last.res = "StopIteration"
    /\ Len(iters[last.h].out) >= 1

\* C16: no cursor that reached exhaustion stays undisposed: once next() has
\* signalled the end and the caller has taken that outcome, the native cursor
\* of the iterator has been disposed.
C16_ExhaustedDisposed ==
    \A i \in Iters : (iters[i].stopped /\ last = Idle) => ~curs[i].alive

\* the string of a filled slot is read at position j before the slot can
\* lose it: before its release when the slot owns the string, before any
\* other native call when the string belongs to the module
CopiedInTime(op, ev, k) ==
    IF op \in BorrowedOps
    THEN k < Len(ev) /\ ev[k + 1] = "copy"
    ELSE \E j \in (k + 1)..Len(ev) :
            /\ ev[j] = "copy"
            /\ \A f \in 1..Len(ev) : ev[f] = "free" => j < f

\* C17: every string that arrives in an output slot is copied into a Python
\* string before the slot can lose it: before the release of an owned slot
\* (parse error, verifier diagnostic, rendering), and for the borrowed slots of
\* data_layout and triple before any further native call.
C17_CopiedBeforeInvalidated ==
    \A k \in 1..Len(last.ev) :
        last.ev[k] = "fill" => CopiedInTime(last.op, last.ev, k)

\* a rendering whose string was copied and then released
C17_Witness ==
    /\ last.op = "str"
    /\ last.res = "ok"
    /\ last.ev = <<"LLVMPY_PrintModuleToString", "fill", "copy", "free">>

\* the native functions that are handed an encoded input buffer
InputFns == {"LLVMPY_ParseAssembly", "LLVMPY_SetDataLayout", "LLVMPY_SetTarget"}

\* C18: when a native function is handed the encoded input buffer, the buffer
\* has been allocated and has not been released; it is released only after
\* that call.
C18_InputBufferOutlivesCall ==
    \A k \in 1..Len(last.ev) :
        last.ev[k] \in InputFns =>
            /\ \E j \in 1..(k - 1) : last.ev[j] = "in.alloc"
            /\ \A j \in 1..(k - 1) : last.ev[j] # "in.free"
            /\ \E j \in (k + 1)..Len(last.ev) : last.ev[j] = "in.free"

\* a setter that has handed its buffer to the native call and let go of it
C18_Witness ==
    /\ last.op = "set_data_layout"
    /\ last.res = "ok"
    /\ last.ev = <<"in.alloc", "LLVMPY_SetDataLayout", "in.free">>

\* C19 as stated: after link_in has returned, self is a live handle, whatever
\* other and preserve were.
C19_LinkNeverInvalidatesTarget ==
    (last.op = "link_in" /\ last.pre = "live" /\ last.res = "ok") =>
        (mods[last.h].st = "live" /\ nat[mods[last.h].addr].alive)

\* C19, amended: link_in on a live self leaves self a live handle on an
\* existing module whenever other is another handle than self, or preserve is
\* set, or the call raised.
C19_LinkKeepsTarget ==
    (last.op = "link_in" /\ last.pre = "live"
        /\ (last.o # last.h \/ last.preserve \/ last.res # "ok")) =>
        (mods[last.h].st = "live" /\ nat[mods[last.h].addr].alive)

\* a successful link_in(other, preserve=False) of another module into self
C19_Witness ==
    /\ last.op = "link_in"
    /\ last.res = "ok"
    /\ ~last.preserve
    /\ last.o # last.h
    /\ mods[last.h].st = "live"
    /\ Len(nat[mods[last.h].addr].syms) = 2

\* C20: the address of a module the linker consumed never reaches
\* LLVMPY_DisposeModule: the handle of a consumed module is closed, a close()
\* or an end-of-scope release of it calls nothing, and the destructor is only
\* ever called on the null pointer or on a module that exists.
C20_ConsumedNeverDisposed ==
    /\ \A h \in Handles : Consumed(h) => mods[h].st = "closed"
    /\ (last.op \in {"close", "del_module"} /\ Consumed(last.h)) => ncall = {}
    /\ \A c \in ncall : c.fn = "LLVMPY_DisposeModule" => c.ok

\* the close() of a handle whose module an earlier link_in consumed, after
\* the target of that link_in was disposed
C20_Witness ==
    /\ last.op = "close"
    /\ Consumed(last.h)
    /\ ncall = {}
    /\ \E g \in Handles : g # last.h /\ mods[g].addr # Null
                              /\ nat[mods[g].addr].disposed = 1

====
